---- MODULE Spec2Model ----
(***************************************************************************)
(* A model of the streaming HTML tokenizer core of lol-html: the tag-name  *)
(* fingerprint (LocalNameHash), the raw-text state group, the token        *)
(* actions, and the parsing loop with chunked input and bookmarks.         *)
(***************************************************************************)
EXTENDS Integers, Sequences, FiniteSets, TLC

VARIABLES
    name,       \* bytes fed so far to the fingerprint under construction
    hash,       \* LocalNameHash(u64) built from `name` by update
    doc,        \* the whole input document, as the consumer holds it
    offset,     \* offset in doc of the first byte of the current chunk
    chunk,      \* input: &Chunk, the bytes of the current chunk
    is_last,    \* Chunk::is_last of the current chunk
    nchunks,    \* number of chunks fed so far
    sm,         \* the fields of the state machine
    emitted,    \* what the emission callback received, in order
    loop,       \* "idle", "running", "resumed", "eoi", "done" or "panic"
    blocked,    \* blocked_byte_count of the last EndOfInput result
    setup,      \* the mode and last start tag selected before parsing
    cuts,       \* offsets in doc at which a non-last chunk ended
    bookmark,   \* the bookmark held by the consumer
    marked,     \* the machine's fields when the bookmark was created
    resumes,    \* number of continue_from_bookmark calls so far
    name2,      \* bytes fed so far to a second fingerprint
    hash2,      \* LocalNameHash(u64) built from `name2` by update
    view,       \* what the consumer last made of the two names
    comment     \* a Comment token in the consumer's hands

hvars == <<name, hash>>
tvars == <<doc, setup, offset, chunk, is_last, nchunks, cuts, sm, emitted, loop,
          blocked, bookmark, marked, resumes>>
\* the second name, the consumer's view of the names, and the comment
xvars == <<name2, hash2, view, comment>>
vars == <<name, hash, doc, setup, offset, chunk, is_last, nchunks, cuts, sm,
         emitted, loop, blocked, bookmark, marked, resumes, name2, hash2,
         view, comment>>

(***************************************************************************)
(* Bytes are their ASCII codes.                                            *)
(***************************************************************************)
ChLowerA == 97
ChLowerK == ChLowerA + 10
ChLowerZ == 122
ChUpperA == 65
ChUpperZ == 90
ChUpperK == ChUpperA + 10
ChDigit1 == 49
ChDigit6 == 54
ChDigit7 == ChDigit6 + 1
ChAt == 64

(***************************************************************************)
(* LocalNameHash: a u64.  TLC integers are 32 bits wide, so the word is    *)
(* kept as 13 limbs, limb i holding bits 5(i-1) .. 5(i-1)+4 and limb 13    *)
(* the four bits 60 .. 63; the arithmetic below is exact modulo 2^64.      *)
(***************************************************************************)
Limbs == 13

U64Zero == [i \in 1..Limbs |-> 0]

\* const EMPTY_HASH: u64 = !0
EMPTY_HASH == [i \in 1..Limbs |-> IF i = Limbs THEN 15 ELSE 31]

\* LocalNameHash::new
HashNew == U64Zero

\* LocalNameHash::is_empty
is_empty(h) == h = EMPTY_HASH

\* h >> (64 - 5): the top five bits of the word
TopFiveBits(h) == h[Limbs] * 2 + (h[Limbs - 1] \div 16)

\* (h << 5) | code, for code < 32, truncated to 64 bits
ShiftOr(h, code) ==
    [i \in 1..Limbs |->
        IF i = 1 THEN code
        ELSE IF i = Limbs THEN h[Limbs - 1] % 16
        ELSE h[i - 1]]

IsAsciiAlpha(ch) ==
    \/ ChLowerA <= ch /\ ch <= ChLowerZ
    \/ ChUpperA <= ch /\ ch <= ChUpperZ

IsDigit1To6(ch) == ChDigit1 <= ch /\ ch <= ChDigit6

\* A variant of update that accepts every ASCII digit and '@'-like bytes by
\* masking them instead of invalidating the hash.
updateNoInvalidate(h, ch) ==
    IF TopFiveBits(h) = 0
    THEN IF IsAsciiAlpha(ch) THEN ShiftOr(h, (ch % 32) + 5)
         ELSE ShiftOr(h, ch % 16)
    ELSE EMPTY_HASH

\* A variant of update that numbers the digits from 1 instead of 0.
updateDigitsFromOne(h, ch) ==
    IF TopFiveBits(h) = 0
    THEN IF IsAsciiAlpha(ch) THEN ShiftOr(h, (ch % 32) + 5)
         ELSE IF IsDigit1To6(ch) THEN ShiftOr(h, ch % 16)
         ELSE EMPTY_HASH
    ELSE EMPTY_HASH

\* A variant of update that accepts lowercase letters only.
updateLowerOnly(h, ch) ==
    IF TopFiveBits(h) = 0
    THEN IF ChLowerA <= ch /\ ch <= ChLowerZ THEN ShiftOr(h, (ch % 32) + 5)
         ELSE IF IsDigit1To6(ch) THEN ShiftOr(h, (ch % 16) - 1)
         ELSE EMPTY_HASH
    ELSE EMPTY_HASH

\* LocalNameHash::update
update(h, ch) ==
    IF TopFiveBits(h) = 0
    THEN IF IsAsciiAlpha(ch) THEN ShiftOr(h, (ch % 32) + 5)
         ELSE IF IsDigit1To6(ch) THEN ShiftOr(h, (ch % 16) - 1)
         ELSE EMPTY_HASH
    ELSE EMPTY_HASH

\* From<&str> for LocalNameHash: update folded over the bytes
LocalNameHash_from(string) ==
    LET F[i \in 0..Len(string)] ==
            IF i = 0 THEN HashNew ELSE update(F[i - 1], string[i])
    IN F[Len(string)]

(***************************************************************************)
(* The tokenizer.  A context c is [sm, out, dir]: the machine's fields,    *)
(* the lexemes handed to the emission callback by the running state        *)
(* function, and the ParsingLoopDirective it returns.                      *)
(***************************************************************************)
ChLt == 60
ChGt == 62
ChSolidus == 47
ChSpace == 32
ChLowerB == ChLowerA + 1

\* Option::None for a consumed byte, an Option<u64> and an Option<token>
NoCh == -1
NoneHash == <<>>
NoToken == [type |-> "None"]
NoAttr == <<>>
NoRaw == <<>>
NoMark == <<>>

IsWhitespace(ch) == ch \in {32, 10, 13, 9, 12}

TextParsingModes ==
    {"Data", "PlainText", "RCData", "RawText", "ScriptData", "CDataSection"}

\* update_tag_name_hash(hash: Option<u64>, ch) of the tokenizer: the
\* fingerprint of section 4.1 with None as the invalid value
update_tag_name_hash_fn(h, ch) ==
    IF h = NoneHash THEN NoneHash
    ELSE LET n == update(h, ch) IN IF is_empty(n) THEN NoneHash ELSE n

\* action_helper!(@emit_lex_result): hand the lexeme to the callback; a
\* StartTag shares the attribute buffer, read here as the callback sees it
emit_lex_result(c, token, raw) ==
    [c EXCEPT !.out = Append(@,
        [token |-> token, raw |-> raw,
         attributes |-> IF token.type = "StartTag"
                        THEN c.sm.attr_buffer ELSE <<>>])]

\* action_helper!(@emit_lex_result_with_raw): the raw range runs from
\* raw_start to end, and the next raw span begins where this one ends
emit_lex_result_with_raw(c, token, end) ==
    [emit_lex_result(c, token, <<c.sm.raw_start, end>>)
        EXCEPT !.sm.raw_start = end]

emit_lex_result_with_raw_inclusive(c, token) ==
    emit_lex_result_with_raw(c, token, c.sm.pos + 1)

emit_lex_result_with_raw_exclusive(c, token) ==
    emit_lex_result_with_raw(c, token, c.sm.pos)

\* action!(emit_eof)
emit_eof(c) ==
    [emit_lex_result(c, [type |-> "Eof"], NoRaw) EXCEPT !.sm.finished = TRUE]

\* emit_chars whose emptiness test is off by one: a pending run of one byte
\* is not flushed
emit_chars_OffByOne(c) ==
    IF c.sm.pos > c.sm.raw_start + 1
    THEN emit_lex_result_with_raw_exclusive(c, [type |-> "Character"])
    ELSE c

\* action!(emit_chars)
emit_chars(c) ==
    IF c.sm.pos > c.sm.raw_start
    THEN emit_lex_result_with_raw_exclusive(c, [type |-> "Character"])
    ELSE c

\* emit_current_token that reads current_token without taking it
emit_current_token_NoTake(c) ==
    IF c.sm.current_token # NoToken
    THEN emit_lex_result_with_raw_inclusive(c, c.sm.current_token)
    ELSE [c EXCEPT !.dir = "Panic"]

\* action!(emit_current_token); unreachable!() aborts the parse
emit_current_token(c) ==
    IF c.sm.current_token # NoToken
    THEN emit_lex_result_with_raw_inclusive(
            [c EXCEPT !.sm.current_token = NoToken], c.sm.current_token)
    ELSE [c EXCEPT !.dir = "Panic"]

\* action!(start_raw)
start_raw(c) == [c EXCEPT !.sm.raw_start = c.sm.pos]

\* action!(start_token_part)
start_token_part(c) ==
    [c EXCEPT !.sm.token_part_start = c.sm.pos - c.sm.raw_start]

\* create_start_tag that leaves the attribute buffer as the previous tag
\* left it
create_start_tag_KeepBuffer(c) ==
    [c EXCEPT !.sm.current_token =
                  [type |-> "StartTag", name |-> <<0, 0>>,
                   name_hash |-> HashNew, self_closing |-> FALSE]]

\* action!(create_start_tag)
create_start_tag(c) ==
    [c EXCEPT !.sm.attr_buffer = <<>>,
              !.sm.current_token =
                  [type |-> "StartTag", name |-> <<0, 0>>,
                   name_hash |-> HashNew, self_closing |-> FALSE]]

\* action!(create_end_tag)
create_end_tag(c) ==
    [c EXCEPT !.sm.current_token =
        [type |-> "EndTag", name |-> <<0, 0>>, name_hash |-> HashNew]]

\* action!(create_comment)
create_comment(c) ==
    [c EXCEPT !.sm.current_token = [type |-> "Comment", text |-> <<0, 0>>]]

\* action_helper!(@set_token_part_range): [token_part_start, pos - raw_start)
token_part_range(c) == <<c.sm.token_part_start, c.sm.pos - c.sm.raw_start>>

IsTag(t) == t.type \in {"StartTag", "EndTag"}

\* action!(mark_comment_text_end)
mark_comment_text_end(c) ==
    IF c.sm.current_token.type = "Comment"
    THEN [c EXCEPT !.sm.current_token.text = token_part_range(c)]
    ELSE c

\* action!(finish_tag_name)
finish_tag_name(c) ==
    IF IsTag(c.sm.current_token)
    THEN [c EXCEPT !.sm.current_token.name = token_part_range(c)]
    ELSE c

\* action!(update_tag_name_hash)
update_tag_name_hash(c, ch) ==
    IF ch # NoCh /\ IsTag(c.sm.current_token)
    THEN [c EXCEPT !.sm.current_token.name_hash =
                        update_tag_name_hash_fn(@, ch)]
    ELSE c

\* action!(mark_as_self_closing)
mark_as_self_closing(c) ==
    IF c.sm.current_token.type = "StartTag"
    THEN [c EXCEPT !.sm.current_token.self_closing = TRUE]
    ELSE c

\* action!(start_attr)
start_attr(c) ==
    IF c.sm.current_token.type = "StartTag"
    THEN start_token_part([c EXCEPT !.sm.current_attr = <<[name |-> <<0, 0>>, value |-> <<0, 0>>]>>])
    ELSE c

\* action!(finish_attr_name)
finish_attr_name(c) ==
    IF c.sm.current_attr # NoAttr
    THEN [c EXCEPT !.sm.current_attr[1].name = token_part_range(c)]
    ELSE c

\* action!(finish_attr)
finish_attr(c) ==
    IF c.sm.current_attr # NoAttr
    THEN [c EXCEPT !.sm.attr_buffer = @ \o c.sm.current_attr,
                   !.sm.current_attr = NoAttr]
    ELSE c

(***************************************************************************)
(* state_machine/mod.rs: the loop driver.                                  *)
(***************************************************************************)
\* StateMachine::switch_state
switch_state(c, state) ==
    [c EXCEPT !.sm.state = state, !.sm.is_state_enter = TRUE]

\* the entry state chosen by the match of switch_text_parsing_mode
EntryState(mode) ==
    CASE mode = "Data" -> "data_state"
      [] mode = "PlainText" -> "plaintext_state"
      [] mode = "RCData" -> "rcdata_state"
      [] mode = "RawText" -> "rawtext_state"
      [] mode = "ScriptData" -> "script_data_state"
      [] mode = "CDataSection" -> "cdata_section_state"

\* StateMachine::switch_text_parsing_mode
switch_text_parsing_mode(c, mode) ==
    switch_state([c EXCEPT !.sm.last_text_parsing_mode = mode],
                 EntryState(mode))

\* StateMachine::get_blocked_byte_count
get_blocked_byte_count(c, input) == Len(input.bytes) - c.sm.raw_start

\* StateMachine::adjust_for_next_input: positions become relative to the
\* bytes the consumer retains
adjust_for_next_input(c) ==
    [c EXCEPT !.sm.pos = c.sm.pos - c.sm.raw_start, !.sm.raw_start = 0]

\* StateMachine::adjust_to_bookmark
adjust_to_bookmark(c, pos) == [c EXCEPT !.sm.raw_start = pos]

\* break_on_end_of_input that never rebases the positions
break_on_end_of_input_NoAdjust(c, input) ==
    [c EXCEPT !.dir = "EndOfInput",
              !.blocked_byte_count = get_blocked_byte_count(c, input)]

\* break_on_end_of_input that counts the blocked bytes after rebasing
break_on_end_of_input_CountAfterAdjust(c, input) ==
    LET a == IF ~input.is_last THEN adjust_for_next_input(c) ELSE c
    IN [a EXCEPT !.dir = "EndOfInput",
                 !.blocked_byte_count = get_blocked_byte_count(a, input)]

\* break_on_end_of_input that rebases on the last chunk too
break_on_end_of_input_AlwaysAdjust(c, input) ==
    [adjust_for_next_input(c)
        EXCEPT !.dir = "EndOfInput",
               !.blocked_byte_count = get_blocked_byte_count(c, input)]

\* StateMachine::break_on_end_of_input
break_on_end_of_input(c, input) ==
    LET blocked_byte_count == get_blocked_byte_count(c, input)
        a == IF ~input.is_last THEN adjust_for_next_input(c) ELSE c
    IN [a EXCEPT !.dir = "EndOfInput", !.blocked_byte_count = blocked_byte_count]

\* StateMachine::create_bookmark
create_bookmark(m, pos) ==
    [cdata_allowed |-> m.cdata_allowed,
     text_parsing_mode |-> m.last_text_parsing_mode,
     last_start_tag_name_hash |-> m.last_start_tag_name_hash,
     pos |-> pos]

\* continue_from_bookmark that leaves last_start_tag_name_hash as it finds it
continue_from_bookmark_KeepHash(c, b) ==
    LET c1 == [c EXCEPT !.sm.cdata_allowed = b.cdata_allowed]
        c2 == switch_text_parsing_mode(c1, b.text_parsing_mode)
        c4 == adjust_to_bookmark(c2, b.pos)
    IN [c4 EXCEPT !.sm.pos = b.pos]

\* continue_from_bookmark that leaves the input cursor where it is
continue_from_bookmark_KeepCursor(c, b) ==
    LET c1 == [c EXCEPT !.sm.cdata_allowed = b.cdata_allowed]
        c2 == switch_text_parsing_mode(c1, b.text_parsing_mode)
        c3 == [c2 EXCEPT !.sm.last_start_tag_name_hash =
                              b.last_start_tag_name_hash]
    IN adjust_to_bookmark(c3, b.pos)

\* StateMachine::continue_from_bookmark, up to the call of run_parsing_loop
continue_from_bookmark(c, b) ==
    LET c1 == [c EXCEPT !.sm.cdata_allowed = b.cdata_allowed]
        c2 == switch_text_parsing_mode(c1, b.text_parsing_mode)
        c3 == [c2 EXCEPT !.sm.last_start_tag_name_hash =
                              b.last_start_tag_name_hash]
        c4 == adjust_to_bookmark(c3, b.pos)
    IN [c4 EXCEPT !.sm.pos = b.pos]

(***************************************************************************)
(* The state DSL: a state function consumes one byte (None at the end of   *)
(* the chunk), runs its enter actions when is_state_enter is set, then the *)
(* arm matching the byte.                                                  *)
(***************************************************************************)
\* Cursor::consume_ch, the byte under the cursor
Ch(c, input) ==
    IF c.sm.pos < Len(input.bytes) THEN input.bytes[c.sm.pos + 1] ELSE NoCh

\* the cursor moves past the byte an arm has handled
Consumed(c) == [c EXCEPT !.sm.pos = @ + 1]

\* `--> state`
Transition(c, state) == Consumed(switch_state(c, state))

\* `reconsume in state`: the cursor stays on the byte
Reconsume(c, state) == switch_state(c, state)

\* the state's enter actions have run
Entered(c) == [c EXCEPT !.sm.is_state_enter = FALSE]

\* notify_text_parsing_mode_change mode
notify_text_parsing_mode_change(c, mode) ==
    IF c.sm.is_state_enter
    THEN [c EXCEPT !.sm.last_text_parsing_mode = mode]
    ELSE c

\* StateMachineConditions::is_appropriate_end_tag
is_appropriate_end_tag(c) ==
    /\ c.sm.current_token.type = "EndTag"
    /\ c.sm.current_token.name_hash # NoneHash
    /\ c.sm.last_start_tag_name_hash # NoneHash
    /\ c.sm.current_token.name_hash = c.sm.last_start_tag_name_hash

\* the `eoc` arm (end of a chunk that is not the last) and the `eof` arm
\* (end of the last chunk) both end in break_on_end_of_input
Eoc(input, ch) == ch = NoCh /\ ~input.is_last
Eof(input, ch) == ch = NoCh /\ input.is_last

(***************************************************************************)
(* syntax/text/rawtext.rs: rawtext_states_group.                           *)
(***************************************************************************)
rawtext_state(c, input) ==
    LET e == Entered(notify_text_parsing_mode_change(c, "RawText"))
        ch == Ch(e, input)
    IN CASE ch = ChLt ->
              Transition(emit_chars(e), "rawtext_less_than_sign_state")
         [] Eoc(input, ch) -> break_on_end_of_input(emit_chars(e), input)
         [] Eof(input, ch) ->
              break_on_end_of_input(emit_eof(emit_chars(e)), input)
         [] OTHER -> Consumed(e)

\* rawtext_less_than_sign_state whose eof arm emits Eof without flushing the
\* pending "<"
rawtext_less_than_sign_state_EofDropsChars(c, input) ==
    LET e == Entered(c)
        ch == Ch(e, input)
    IN CASE ch = ChSolidus -> Transition(e, "rawtext_end_tag_open_state")
         [] Eof(input, ch) -> break_on_end_of_input(emit_eof(e), input)
         [] Eoc(input, ch) -> break_on_end_of_input(e, input)
         [] OTHER -> Reconsume(emit_chars(e), "rawtext_state")

\* rawtext_less_than_sign_state that consumes the byte that is not '/'
rawtext_less_than_sign_state_Skip(c, input) ==
    LET e == Entered(c)
        ch == Ch(e, input)
    IN CASE ch = ChSolidus -> Transition(e, "rawtext_end_tag_open_state")
         [] Eof(input, ch) ->
              break_on_end_of_input(emit_eof(emit_chars(e)), input)
         [] Eoc(input, ch) -> break_on_end_of_input(e, input)
         [] OTHER -> Transition(emit_chars(e), "rawtext_state")

rawtext_less_than_sign_state(c, input) ==
    LET e == Entered(c)
        ch == Ch(e, input)
    IN CASE ch = ChSolidus -> Transition(e, "rawtext_end_tag_open_state")
         [] Eof(input, ch) ->
              break_on_end_of_input(emit_eof(emit_chars(e)), input)
         [] Eoc(input, ch) -> break_on_end_of_input(e, input)
         [] OTHER -> Reconsume(emit_chars(e), "rawtext_state")

\* rawtext_end_tag_open_state with an eoc arm that flushes the pending "</"
\* at the end of a chunk
rawtext_end_tag_open_state_EocFlush(c, input) ==
    LET e == Entered(c)
        ch == Ch(e, input)
    IN CASE ch # NoCh /\ IsAsciiAlpha(ch) ->
              Transition(
                  update_tag_name_hash(start_token_part(create_end_tag(e)), ch),
                  "rawtext_end_tag_name_state")
         [] Eof(input, ch) ->
              break_on_end_of_input(emit_eof(emit_chars(e)), input)
         [] Eoc(input, ch) -> break_on_end_of_input(emit_chars(e), input)
         [] OTHER -> Reconsume(emit_chars(e), "rawtext_state")

\* rawtext_end_tag_open_state that reconsumes the byte in itself
rawtext_end_tag_open_state_SelfReconsume(c, input) ==
    LET e == Entered(c)
        ch == Ch(e, input)
    IN CASE ch # NoCh /\ IsAsciiAlpha(ch) ->
              Transition(
                  update_tag_name_hash(start_token_part(create_end_tag(e)), ch),
                  "rawtext_end_tag_name_state")
         [] Eof(input, ch) ->
              break_on_end_of_input(emit_eof(emit_chars(e)), input)
         [] Eoc(input, ch) -> break_on_end_of_input(e, input)
         [] OTHER -> Reconsume(emit_chars(e), "rawtext_end_tag_open_state")

rawtext_end_tag_open_state(c, input) ==
    LET e == Entered(c)
        ch == Ch(e, input)
    IN CASE ch # NoCh /\ IsAsciiAlpha(ch) ->
              Transition(
                  update_tag_name_hash(start_token_part(create_end_tag(e)), ch),
                  "rawtext_end_tag_name_state")
         [] Eof(input, ch) ->
              break_on_end_of_input(emit_eof(emit_chars(e)), input)
         [] Eoc(input, ch) -> break_on_end_of_input(e, input)
         [] OTHER -> Reconsume(emit_chars(e), "rawtext_state")

\* rawtext_end_tag_name_state whose '>' arm does not test the end tag
rawtext_end_tag_name_state_NoTest(c, input) ==
    LET e == Entered(c)
        ch == Ch(e, input)
        abandon == Reconsume(emit_chars(e), "rawtext_state")
    IN CASE ch # NoCh /\ IsWhitespace(ch) ->
              IF is_appropriate_end_tag(e)
              THEN Transition(finish_tag_name(e), "before_attribute_name_state")
              ELSE abandon
         [] ch = ChSolidus ->
              IF is_appropriate_end_tag(e)
              THEN Transition(finish_tag_name(e), "self_closing_start_tag_state")
              ELSE abandon
         [] ch = ChGt ->
              Transition(emit_current_token(finish_tag_name(e)), "data_state")
         [] ch # NoCh /\ IsAsciiAlpha(ch) -> Consumed(update_tag_name_hash(e, ch))
         [] Eof(input, ch) ->
              break_on_end_of_input(emit_eof(emit_chars(e)), input)
         [] Eoc(input, ch) -> break_on_end_of_input(e, input)
         [] OTHER -> abandon

\* rawtext_end_tag_name_state that, after the end tag, goes back to the entry
\* state of the text parsing mode in force
rawtext_end_tag_name_state_KeepMode(c, input) ==
    LET e == Entered(c)
        ch == Ch(e, input)
        abandon == Reconsume(emit_chars(e), "rawtext_state")
    IN CASE ch # NoCh /\ IsWhitespace(ch) ->
              IF is_appropriate_end_tag(e)
              THEN Transition(finish_tag_name(e), "before_attribute_name_state")
              ELSE abandon
         [] ch = ChSolidus ->
              IF is_appropriate_end_tag(e)
              THEN Transition(finish_tag_name(e), "self_closing_start_tag_state")
              ELSE abandon
         [] ch = ChGt ->
              IF is_appropriate_end_tag(e)
              THEN Transition(emit_current_token(finish_tag_name(e)),
                              EntryState(e.sm.last_text_parsing_mode))
              ELSE abandon
         [] ch # NoCh /\ IsAsciiAlpha(ch) -> Consumed(update_tag_name_hash(e, ch))
         [] Eof(input, ch) ->
              break_on_end_of_input(emit_eof(emit_chars(e)), input)
         [] Eoc(input, ch) -> break_on_end_of_input(e, input)
         [] OTHER -> abandon

rawtext_end_tag_name_state(c, input) ==
    LET e == Entered(c)
        ch == Ch(e, input)
        abandon == Reconsume(emit_chars(e), "rawtext_state")
    IN CASE ch # NoCh /\ IsWhitespace(ch) ->
              IF is_appropriate_end_tag(e)
              THEN Transition(finish_tag_name(e), "before_attribute_name_state")
              ELSE abandon
         [] ch = ChSolidus ->
              IF is_appropriate_end_tag(e)
              THEN Transition(finish_tag_name(e), "self_closing_start_tag_state")
              ELSE abandon
         [] ch = ChGt ->
              IF is_appropriate_end_tag(e)
              THEN Transition(emit_current_token(finish_tag_name(e)),
                              "data_state")
              ELSE abandon
         [] ch # NoCh /\ IsAsciiAlpha(ch) -> Consumed(update_tag_name_hash(e, ch))
         [] Eof(input, ch) ->
              break_on_end_of_input(emit_eof(emit_chars(e)), input)
         [] Eoc(input, ch) -> break_on_end_of_input(e, input)
         [] OTHER -> abandon

(***************************************************************************)
(* The states the raw-text group hands over to, and the other entry states *)
(* of switch_text_parsing_mode that the inputs reach: the data state and   *)
(* the tag states of the HTML tokenization algorithm, without attribute    *)
(* values, markup declarations and character references.                   *)
(***************************************************************************)
\* emit_raw_without_token: a lexeme that carries its raw bytes only
emit_raw_without_token(c) == emit_lex_result_with_raw_inclusive(c, NoToken)

\* every state's end-of-input arms: pending characters, then Eof or suspend
EndOfChunk(e, input) ==
    IF input.is_last
    THEN break_on_end_of_input(emit_eof(emit_chars(e)), input)
    ELSE break_on_end_of_input(e, input)

data_state(c, input) ==
    LET e == Entered(notify_text_parsing_mode_change(c, "Data"))
        ch == Ch(e, input)
    IN CASE ch = ChLt -> Transition(emit_chars(e), "tag_open_state")
         [] Eoc(input, ch) -> break_on_end_of_input(emit_chars(e), input)
         [] Eof(input, ch) ->
              break_on_end_of_input(emit_eof(emit_chars(e)), input)
         [] OTHER -> Consumed(e)

plaintext_state(c, input) ==
    LET e == Entered(notify_text_parsing_mode_change(c, "PlainText"))
        ch == Ch(e, input)
    IN CASE Eoc(input, ch) -> break_on_end_of_input(emit_chars(e), input)
         [] Eof(input, ch) ->
              break_on_end_of_input(emit_eof(emit_chars(e)), input)
         [] OTHER -> Consumed(e)

tag_open_state(c, input) ==
    LET e == Entered(c)
        ch == Ch(e, input)
    IN CASE ch = ChSolidus -> Transition(e, "end_tag_open_state")
         [] ch # NoCh /\ IsAsciiAlpha(ch) ->
              Transition(
                  update_tag_name_hash(start_token_part(create_start_tag(e)), ch),
                  "tag_name_state")
         [] ch = NoCh -> EndOfChunk(e, input)
         [] OTHER -> Reconsume(emit_chars(e), "data_state")

end_tag_open_state(c, input) ==
    LET e == Entered(c)
        ch == Ch(e, input)
    IN CASE ch # NoCh /\ IsAsciiAlpha(ch) ->
              Transition(
                  update_tag_name_hash(start_token_part(create_end_tag(e)), ch),
                  "tag_name_state")
         [] ch = ChGt -> Transition(emit_raw_without_token(e), "data_state")
         [] ch = NoCh -> EndOfChunk(e, input)
         [] OTHER ->
              Transition(start_token_part(create_comment(e)),
                         "bogus_comment_state")

tag_name_state(c, input) ==
    LET e == Entered(c)
        ch == Ch(e, input)
    IN CASE ch # NoCh /\ IsWhitespace(ch) ->
              Transition(finish_tag_name(e), "before_attribute_name_state")
         [] ch = ChSolidus ->
              Transition(finish_tag_name(e), "self_closing_start_tag_state")
         [] ch = ChGt ->
              Transition(emit_current_token(finish_tag_name(e)), "data_state")
         [] ch = NoCh -> EndOfChunk(e, input)
         [] OTHER -> Consumed(update_tag_name_hash(e, ch))

before_attribute_name_state(c, input) ==
    LET e == Entered(c)
        ch == Ch(e, input)
    IN CASE ch # NoCh /\ IsWhitespace(ch) -> Consumed(e)
         [] ch = ChSolidus -> Transition(e, "self_closing_start_tag_state")
         [] ch = ChGt -> Transition(emit_current_token(e), "data_state")
         [] ch = NoCh -> EndOfChunk(e, input)
         [] OTHER -> Transition(start_attr(e), "attribute_name_state")

attribute_name_state(c, input) ==
    LET e == Entered(c)
        ch == Ch(e, input)
    IN CASE ch # NoCh /\ IsWhitespace(ch) ->
              Transition(finish_attr_name(e), "after_attribute_name_state")
         [] ch = ChSolidus ->
              Transition(finish_attr(finish_attr_name(e)),
                         "self_closing_start_tag_state")
         [] ch = ChGt ->
              Transition(emit_current_token(finish_attr(finish_attr_name(e))),
                         "data_state")
         [] ch = NoCh -> EndOfChunk(e, input)
         [] OTHER -> Consumed(e)

after_attribute_name_state(c, input) ==
    LET e == Entered(c)
        ch == Ch(e, input)
    IN CASE ch # NoCh /\ IsWhitespace(ch) -> Consumed(e)
         [] ch = ChSolidus ->
              Transition(finish_attr(e), "self_closing_start_tag_state")
         [] ch = ChGt ->
              Transition(emit_current_token(finish_attr(e)), "data_state")
         [] ch = NoCh -> EndOfChunk(e, input)
         [] OTHER ->
              Transition(start_attr(finish_attr(e)), "attribute_name_state")

self_closing_start_tag_state(c, input) ==
    LET e == Entered(c)
        ch == Ch(e, input)
    IN CASE ch = ChGt ->
              Transition(emit_current_token(mark_as_self_closing(e)),
                         "data_state")
         [] ch = NoCh -> EndOfChunk(e, input)
         [] OTHER -> Reconsume(e, "before_attribute_name_state")

bogus_comment_state(c, input) ==
    LET e == Entered(c)
        ch == Ch(e, input)
    IN CASE ch = ChGt ->
              Transition(emit_current_token(mark_comment_text_end(e)),
                         "data_state")
         [] ch = NoCh -> EndOfChunk(e, input)
         [] OTHER -> Consumed(e)

\* let state = self.state(); state(self, input)
Dispatch(c, input) ==
    CASE c.sm.state = "rawtext_state" -> rawtext_state(c, input)
      [] c.sm.state = "rawtext_less_than_sign_state" ->
            rawtext_less_than_sign_state(c, input)
      [] c.sm.state = "rawtext_end_tag_open_state" ->
            rawtext_end_tag_open_state(c, input)
      [] c.sm.state = "rawtext_end_tag_name_state" ->
            rawtext_end_tag_name_state(c, input)
      [] c.sm.state = "data_state" -> data_state(c, input)
      [] c.sm.state = "plaintext_state" -> plaintext_state(c, input)
      [] c.sm.state = "tag_open_state" -> tag_open_state(c, input)
      [] c.sm.state = "end_tag_open_state" -> end_tag_open_state(c, input)
      [] c.sm.state = "tag_name_state" -> tag_name_state(c, input)
      [] c.sm.state = "before_attribute_name_state" ->
            before_attribute_name_state(c, input)
      [] c.sm.state = "attribute_name_state" -> attribute_name_state(c, input)
      [] c.sm.state = "after_attribute_name_state" ->
            after_attribute_name_state(c, input)
      [] c.sm.state = "self_closing_start_tag_state" ->
            self_closing_start_tag_state(c, input)
      [] c.sm.state = "bogus_comment_state" -> bogus_comment_state(c, input)

(***************************************************************************)
(* The consumer: it holds the document, feeds it chunk by chunk, keeps the *)
(* last blocked_byte_count bytes of a chunk in front of the next one, and  *)
(* records what the emission callback receives.                            *)
(***************************************************************************)
\* Longest document fed to the tokenizer.
MaxDocLen == 4
\* Largest number of chunks a document is fed in.
MaxChunks == 2

DocBytes == {ChLt, ChSolidus, ChGt, ChSpace, ChLowerA}

\* "<a a></a a><a a a>": attributes on a start tag, on an end tag, and twice
\* the same name on a start tag
AttributesDoc ==
    <<ChLt, ChLowerA, ChSpace, ChLowerA, ChGt,
      ChLt, ChSolidus, ChLowerA, ChSpace, ChLowerA, ChGt,
      ChLt, ChLowerA, ChSpace, ChLowerA, ChSpace, ChLowerA, ChGt>>

\* "</a><a>": an end tag and then a start tag
EndThenStartDoc ==
    <<ChLt, ChSolidus, ChLowerA, ChGt, ChLt, ChLowerA, ChGt>>

\* Longer documents that take the machine through the attribute states, the
\* self-closing state and a bogus comment: "</a a >", "<a/>" and "<//>".
SampleDocs ==
    {<<ChLt, ChSolidus, ChLowerA, ChSpace, ChLowerA, ChSpace, ChGt>>,
     <<ChLt, ChLowerA, ChSolidus, ChGt>>,
     <<ChLt, ChSolidus, ChSolidus, ChGt>>}

\* Documents with several tags
TagDocs == {AttributesDoc, EndThenStartDoc}

Docs ==
    UNION {[1..n -> DocBytes] : n \in 0..MaxDocLen} \cup SampleDocs \cup TagDocs

\* the hash the tokenizer holds for a tag name: None when invalid
HashOf(s) ==
    LET F[i \in 0..Len(s)] ==
            IF i = 0 THEN HashNew ELSE update_tag_name_hash_fn(F[i - 1], s[i])
    IN F[Len(s)]

\* the text parsing mode and the last start tag the consumer selects before
\* the first chunk
Setups ==
    {[mode |-> "Data", last |-> NoneHash],
     [mode |-> "PlainText", last |-> NoneHash]}
    \cup {[mode |-> "RawText", last |-> h] :
            h \in {NoneHash, HashOf(<<ChLowerA>>), HashOf(<<ChLowerB>>)}}

\* the machine as constructed
NewMachine ==
    [state |-> "data_state",
     is_state_enter |-> TRUE,
     pos |-> 0,
     raw_start |-> 0,
     token_part_start |-> 0,
     current_token |-> NoToken,
     current_attr |-> NoAttr,
     attr_buffer |-> <<>>,
     last_start_tag_name_hash |-> NoneHash,
     last_text_parsing_mode |-> "Data",
     cdata_allowed |-> FALSE,
     finished |-> FALSE]

Ctx(m) == [sm |-> m, out |-> <<>>, dir |-> "None", blocked_byte_count |-> 0]

\* the consumer's mode-setting calls before parsing starts
Configure(m, s) ==
    [switch_text_parsing_mode(Ctx(m), s.mode).sm
        EXCEPT !.last_start_tag_name_hash = s.last]

\* the emission callback: the token, and its raw range as an offset into the
\* document together with the bytes of the chunk it covers
Record(lex, base, bytes) ==
    IF lex.raw = NoRaw
    THEN [token |-> lex.token, attributes |-> lex.attributes,
          start |-> -1, end |-> -1, bytes |-> <<>>]
    ELSE [token |-> lex.token, attributes |-> lex.attributes,
          start |-> base + lex.raw[1], end |-> base + lex.raw[2],
          bytes |-> SubSeq(bytes, lex.raw[1] + 1, lex.raw[2])]

Records(out, base, bytes) ==
    [i \in 1..Len(out) |-> Record(out[i], base, bytes)]

Input == [bytes |-> chunk, is_last |-> is_last]

NoView == <<>>
NoComment == <<>>

\* no second name, nothing made of the names, no comment in hand
XIdle ==
    /\ name2 = <<>>
    /\ hash2 = HashNew
    /\ view = NoView
    /\ comment = NoComment

TokIdle(d, s) ==
    /\ doc = d
    /\ setup = s
    /\ offset = 0
    /\ chunk = <<>>
    /\ is_last = FALSE
    /\ nchunks = 0
    /\ cuts = {}
    /\ sm = Configure(NewMachine, s)
    /\ emitted = <<>>
    /\ loop = "idle"
    /\ blocked = 0
    /\ bookmark = create_bookmark(Configure(NewMachine, s), 0)
    /\ marked = NoMark
    /\ resumes = 0

Init ==
    /\ name = <<>>
    /\ hash = HashNew
    /\ \E d \in Docs, s \in Setups : TokIdle(d, s)
    /\ XIdle

\* feed(chunk, is_last): n new bytes behind the retained ones
Feed ==
    /\ loop \in {"idle", "eoi"}
    /\ nchunks < MaxChunks
    /\ LET presented == offset + Len(chunk)
           retained == SubSeq(chunk, Len(chunk) - blocked + 1, Len(chunk))
       IN \E n \in 0..(Len(doc) - presented), last \in BOOLEAN :
            /\ last => n = Len(doc) - presented
            /\ ~last => n >= 1
            /\ nchunks = MaxChunks - 1 => last
            /\ chunk' = retained \o SubSeq(doc, presented + 1, presented + n)
            /\ offset' = presented - blocked
            /\ is_last' = last
            /\ cuts' = IF last THEN cuts ELSE cuts \cup {presented + n}
    /\ nchunks' = nchunks + 1
    /\ loop' = "running"
    /\ UNCHANGED <<xvars, name, hash, doc, setup, sm, emitted, blocked, bookmark,
                   marked, resumes>>

\* one turn of run_parsing_loop: the current state function runs, and the
\* loop returns when it yields Break
RunState(state) ==
    /\ loop \in {"running", "resumed"}
    /\ sm.state = state
    /\ LET r == Dispatch(Ctx(sm), Input)
       IN /\ sm' = r.sm
          /\ emitted' = emitted \o Records(r.out, offset, chunk)
          /\ loop' = CASE r.dir = "Panic" -> "panic"
                       [] r.dir = "EndOfInput" ->
                            IF is_last THEN "done" ELSE "eoi"
                       [] OTHER -> "running"
          /\ blocked' = IF r.dir = "EndOfInput"
                        THEN r.blocked_byte_count ELSE blocked
    /\ UNCHANGED <<xvars, name, hash, doc, setup, offset, chunk, is_last, nchunks,
                   cuts, bookmark, marked, resumes>>

RawtextState == RunState("rawtext_state")
RawtextLessThanSignState == RunState("rawtext_less_than_sign_state")
RawtextEndTagOpenState == RunState("rawtext_end_tag_open_state")
RawtextEndTagNameState == RunState("rawtext_end_tag_name_state")
DataState == RunState("data_state")
PlaintextState == RunState("plaintext_state")
TagOpenState == RunState("tag_open_state")
EndTagOpenState == RunState("end_tag_open_state")
TagNameState == RunState("tag_name_state")
BeforeAttributeNameState == RunState("before_attribute_name_state")
AttributeNameState == RunState("attribute_name_state")
AfterAttributeNameState == RunState("after_attribute_name_state")
SelfClosingStartTagState == RunState("self_closing_start_tag_state")
BogusCommentState == RunState("bogus_comment_state")

RunParsingLoop ==
    \/ RawtextState
    \/ RawtextLessThanSignState
    \/ RawtextEndTagOpenState
    \/ RawtextEndTagNameState
    \/ DataState
    \/ PlaintextState
    \/ TagOpenState
    \/ EndTagOpenState
    \/ TagNameState
    \/ BeforeAttributeNameState
    \/ AttributeNameState
    \/ AfterAttributeNameState
    \/ SelfClosingStartTagState
    \/ BogusCommentState

Next == Feed \/ RunParsingLoop

Spec == Init /\ [][Next]_vars

\* run_parsing_loop is `loop { ... }`: once entered it keeps calling the
\* current state function until one yields Break
\* Longest enumerated document of the fair specification.
MaxLiveDocLen == 3

LiveDocs ==
    UNION {[1..n -> DocBytes] : n \in 0..MaxLiveDocLen}
        \cup SampleDocs \cup TagDocs

LiveInit ==
    /\ name = <<>>
    /\ hash = HashNew
    /\ \E d \in LiveDocs, s \in Setups : TokIdle(d, s)
    /\ XIdle

LiveSpec == LiveInit /\ [][Next]_vars /\ WF_vars(RunParsingLoop)

\* run_parsing_loop on the whole document as a single last chunk
RECURSIVE RunWhole(_, _, _)
RunWhole(c, input, fuel) ==
    IF c.dir # "None" \/ fuel = 0 THEN c
    ELSE RunWhole(Dispatch(c, input), input, fuel - 1)

\* what the callback receives when the document is fed whole
WholeEmitted(d, s) ==
    LET input == [bytes |-> d, is_last |-> TRUE]
        c == RunWhole(Ctx(Configure(NewMachine, s)), input, 2 * Len(d) + 2)
    IN Records(c.out, 0, d)

(***************************************************************************)
(* Re-entry: between calls of the parsing loop the consumer may change the *)
(* machine's mode settings, a bookmark may be taken at any position of the *)
(* chunk, and parsing may be resumed from the bookmark held.               *)
(***************************************************************************)
\* Longest document of the runs that resume from bookmarks.
MaxBookmarkDocLen == 1
\* Largest number of continue_from_bookmark calls in a run.
MaxResumes == 1

\* Bytes of the documents in these runs: enough to leave every text state.
BookmarkDocBytes == {ChLt, ChSolidus, ChLowerA}

BookmarkDocs ==
    UNION {[1..n -> BookmarkDocBytes] : n \in 0..MaxBookmarkDocLen}
        \cup SampleDocs

ConsumerModes == {"Data", "RawText", "PlainText"}

ConsumerHashes == {NoneHash, HashOf(<<ChLowerA>>), HashOf(<<ChLowerB>>)}

BookmarkInit ==
    /\ name = <<>>
    /\ hash = HashNew
    /\ \E d \in BookmarkDocs, s \in Setups : TokIdle(d, s)
    /\ XIdle

Returned == loop \in {"eoi", "done"}

\* The consumer changes settings between taking the bookmark and resuming.
Holding == Returned /\ marked # NoMark /\ resumes < MaxResumes

\* StateMachine::set_cdata_allowed
SetCdataAllowed ==
    /\ Holding
    /\ \E b \in BOOLEAN :
        /\ b # sm.cdata_allowed
        /\ sm' = [sm EXCEPT !.cdata_allowed = b]
    /\ UNCHANGED <<xvars, name, hash, doc, setup, offset, chunk, is_last, nchunks,
                   cuts, emitted, loop, blocked, bookmark, marked, resumes>>

\* StateMachine::set_last_start_tag_name_hash
SetLastStartTagNameHash ==
    /\ Holding
    /\ \E h \in ConsumerHashes :
        /\ h # sm.last_start_tag_name_hash
        /\ sm' = [sm EXCEPT !.last_start_tag_name_hash = h]
    /\ UNCHANGED <<xvars, name, hash, doc, setup, offset, chunk, is_last, nchunks,
                   cuts, emitted, loop, blocked, bookmark, marked, resumes>>

\* the consumer's switch_text_parsing_mode
SwitchTextParsingMode ==
    /\ Holding
    /\ \E mode \in ConsumerModes :
        /\ mode # sm.last_text_parsing_mode
        /\ sm' = switch_text_parsing_mode(Ctx(sm), mode).sm
    /\ UNCHANGED <<xvars, name, hash, doc, setup, offset, chunk, is_last, nchunks,
                   cuts, emitted, loop, blocked, bookmark, marked, resumes>>

\* create_bookmark(pos), at any position of the chunk
CreateBookmark ==
    /\ loop \in {"running", "eoi", "done"}
    /\ marked = NoMark
    /\ \E p \in 0..Len(chunk) :
        /\ bookmark' = create_bookmark(sm, p)
        /\ marked' = [sm EXCEPT !.pos = p]
    /\ UNCHANGED <<xvars, name, hash, doc, setup, offset, chunk, is_last, nchunks,
                   cuts, sm, emitted, loop, blocked, resumes>>

\* continue_from_bookmark(input, bookmark), up to its call of
\* run_parsing_loop, which the state actions carry on
ContinueFromBookmark ==
    /\ Holding
    /\ bookmark.pos <= Len(chunk)
    /\ sm' = continue_from_bookmark(Ctx(sm), bookmark).sm
    /\ loop' = "resumed"
    /\ resumes' = resumes + 1
    /\ UNCHANGED <<xvars, name, hash, doc, setup, offset, chunk, is_last, nchunks,
                   cuts, emitted, blocked, bookmark, marked>>

BookmarkNext ==
    \/ Feed
    \/ RunParsingLoop
    \/ SetCdataAllowed
    \/ SetLastStartTagNameHash
    \/ SwitchTextParsingMode
    \/ CreateBookmark
    \/ ContinueFromBookmark

BookmarkSpec == BookmarkInit /\ [][BookmarkNext]_vars

(***************************************************************************)
(* Reading the emission log.                                               *)
(***************************************************************************)
HasRaw(e) == e.start >= 0

IsCharacter(e) == e.token.type = "Character"

\* the emissions that carry a raw range, in emission order
RawEmissions(seq) == SelectSeq(seq, HasRaw)

\* the raw bytes of all emissions, concatenated in emission order
RawConcat(seq) ==
    LET F[i \in 0..Len(seq)] ==
            IF i = 0 THEN <<>> ELSE F[i - 1] \o seq[i].bytes
    IN F[Len(seq)]

\* adjacent Character emissions merged into one
Coalesce(seq) ==
    LET F[i \in 0..Len(seq)] ==
            IF i = 0 THEN <<>>
            ELSE LET p == F[i - 1]
                     n == Len(p)
                 IN IF n > 0 /\ IsCharacter(p[n]) /\ IsCharacter(seq[i])
                    THEN [p EXCEPT ![n] = [@ EXCEPT !.end = seq[i].end,
                                                    !.bytes = @ \o seq[i].bytes]]
                    ELSE Append(p, seq[i])
    IN F[Len(seq)]

InSeq(e, seq) == \E i \in 1..Len(seq) : seq[i] = e

(***************************************************************************)
(* C1 as stated: fed in any chunking, with the blocked bytes presented     *)
(* again, the tokenizer emits the same token sequence as when the document *)
(* is fed as a single last chunk.                                          *)
(***************************************************************************)
C1_SameSequenceAsWhole ==
    loop = "done" => emitted = WholeEmitted(doc, setup)

(***************************************************************************)
(* C1 amended: the chunked run emits the token sequence of the whole run   *)
(* except that character data may come in several Character tokens: after  *)
(* merging adjacent Character emissions the two sequences are equal, and   *)
(* an emission of the chunked run that the whole run does not make is a    *)
(* Character token that begins or ends at a chunk boundary.                *)
(***************************************************************************)
C1_SameSequenceUpToTextSplits ==
    loop = "done" =>
        LET whole == WholeEmitted(doc, setup)
        IN /\ Coalesce(emitted) = Coalesce(whole)
           /\ \A i \in 1..Len(emitted) :
                \/ InSeq(emitted[i], whole)
                \/ /\ IsCharacter(emitted[i])
                   /\ emitted[i].start \in cuts \/ emitted[i].end \in cuts

\* a finished two-chunk run whose boundary fell inside a tag, which was
\* emitted with text before and after it
C1_Witness ==
    /\ loop = "done"
    /\ nchunks = 2
    /\ Len(emitted) >= 3
    /\ \E i \in 1..Len(emitted) :
        /\ emitted[i].token.type \in {"StartTag", "EndTag"}
        /\ \E b \in cuts : emitted[i].start < b /\ b < emitted[i].end

(***************************************************************************)
(* C2: once Eof has been emitted, the raw ranges of the emissions, in      *)
(* emission order, tile the input: the first begins at offset 0, each      *)
(* begins where the previous one ended, the last ends at the end of the    *)
(* input, and their bytes concatenated are the input bytes.                *)
(***************************************************************************)
C2_RawRoundTrip ==
    sm.finished =>
        LET raws == RawEmissions(emitted)
        IN /\ RawConcat(emitted) = doc
           /\ \A i \in 1..Len(raws) :
                /\ raws[i].start = (IF i = 1 THEN 0 ELSE raws[i - 1].end)
                /\ raws[i].bytes = SubSeq(doc, raws[i].start + 1, raws[i].end)
           /\ (IF raws = <<>> THEN 0 ELSE raws[Len(raws)].end) = Len(doc)

\* a finished raw-text run in which an end-tag candidate was abandoned: its
\* bytes came out as a Character token beginning with "</" and a letter
C2_Witness ==
    /\ sm.finished
    /\ setup.mode = "RawText"
    /\ \E i \in 1..Len(emitted) :
        /\ IsCharacter(emitted[i])
        /\ Len(emitted[i].bytes) >= 3
        /\ emitted[i].bytes[1] = ChLt
        /\ emitted[i].bytes[2] = ChSolidus
        /\ emitted[i].bytes[3] = ChLowerA
    /\ Len(emitted) >= 3

(***************************************************************************)
(* C3: the raw range of every emission begins at or after the end of the   *)
(* raw range of every earlier emission.                                    *)
(***************************************************************************)
C3_EmissionOrder ==
    LET raws == RawEmissions(emitted)
    IN \A i \in 1..Len(raws) :
        /\ raws[i].start <= raws[i].end
        /\ i > 1 => raws[i - 1].end <= raws[i].start

\* three raw emissions made over two chunks
C3_Witness ==
    /\ Len(RawEmissions(emitted)) >= 3
    /\ nchunks = 2
    /\ offset > 0

(***************************************************************************)
(* Reading one turn of the parsing loop: the byte under the cursor before  *)
(* the turn and the emissions the turn made.                               *)
(***************************************************************************)
CurrentByte == IF sm.pos < Len(chunk) THEN chunk[sm.pos + 1] ELSE NoCh

NewEmissions == SubSeq(emitted', Len(emitted) + 1, Len(emitted'))

TextStates == {"data_state", "rawtext_state", "plaintext_state"}

RawTextGroup ==
    {"rawtext_state", "rawtext_less_than_sign_state",
     "rawtext_end_tag_open_state", "rawtext_end_tag_name_state"}

\* the pending bytes [raw_start, pos) as the callback would receive them
PendingCharacters ==
    IF sm.pos > sm.raw_start
    THEN <<[token |-> [type |-> "Character"], attributes |-> <<>>,
            start |-> offset + sm.raw_start, end |-> offset + sm.pos,
            bytes |-> SubSeq(chunk, sm.raw_start + 1, sm.pos)]>>
    ELSE <<>>

EofIsFinal ==
    /\ \A i \in 1..Len(emitted) :
            emitted[i].token.type = "Eof" => i = Len(emitted)
    /\ sm.finished <=>
            (emitted # <<>> /\ emitted[Len(emitted)].token.type = "Eof")
    /\ loop = "done" <=> sm.finished

\* C5: the EOF discipline, turn by turn and over the whole run.
C5_EofDiscipline ==
    /\ []EofIsFinal
    /\ [][(loop = "running" /\ CurrentByte = NoCh) =>
            IF is_last
            THEN /\ NewEmissions =
                        PendingCharacters \o
                        <<[token |-> [type |-> "Eof"], attributes |-> <<>>,
                           start |-> -1, end |-> -1, bytes |-> <<>>]>>
                 /\ sm'.finished
                 /\ loop' = "done"
            ELSE /\ \A i \in 1..Len(NewEmissions) :
                        NewEmissions[i].token.type # "Eof"
                 /\ ~sm'.finished
                 /\ loop' = "eoi"
                 /\ sm'.state = sm.state
      ]_vars
    /\ [][sm.finished => (sm'.finished /\ emitted' = emitted)]_vars

\* the last chunk ended inside an end-tag candidate of a raw-text run fed in
\* two chunks: its bytes were emitted as characters, then Eof
C5_Witness ==
    /\ loop = "done"
    /\ nchunks = 2
    /\ sm.state = "rawtext_end_tag_name_state"
    /\ Len(emitted) >= 2
    /\ IsCharacter(emitted[Len(emitted) - 1])
    /\ emitted[Len(emitted)].token.type = "Eof"

(***************************************************************************)
(* C6 as stated: the loop returns EndOfInput on a chunk that ends inside a *)
(* token with the token's bytes blocked and none of them emitted, and      *)
(* every token of the document whose bytes straddle a chunk boundary is    *)
(* emitted exactly once, whole.                                            *)
(***************************************************************************)
Straddles(e) == \E b \in cuts : e.start < b /\ b < e.end

EmittedOnceWhole(w) ==
    /\ Cardinality({i \in 1..Len(emitted) : emitted[i] = w}) = 1
    /\ \A i \in 1..Len(emitted) :
            \/ emitted[i] = w
            \/ ~HasRaw(emitted[i])
            \/ emitted[i].end <= w.start
            \/ emitted[i].start >= w.end

SuspendedInsideToken ==
    (loop = "eoi" /\ sm.state \notin TextStates) =>
        /\ blocked >= 1
        /\ blocked <= Len(chunk)
        /\ chunk[Len(chunk) - blocked + 1] = ChLt
        /\ sm.state = "tag_name_state" => blocked >= 2
        /\ \A i \in 1..Len(emitted) :
                emitted[i].end <= offset + Len(chunk) - blocked

\* C6 as stated: suspension inside a token, and every straddling token
\* emitted once and whole.
C6_StraddlingTokenWhole ==
    /\ SuspendedInsideToken
    /\ loop = "done" =>
        LET whole == WholeEmitted(doc, setup)
        IN \A i \in 1..Len(whole) :
            (HasRaw(whole[i]) /\ Straddles(whole[i])) =>
                EmittedOnceWhole(whole[i])

(***************************************************************************)
(* C6 amended: as stated, for every token other than a Character token (a  *)
(* run of character bytes that straddles a chunk boundary is emitted in    *)
(* pieces, one per chunk).                                                 *)
(***************************************************************************)
C6_StraddlingTagWhole ==
    /\ SuspendedInsideToken
    /\ loop = "done" =>
        LET whole == WholeEmitted(doc, setup)
        IN \A i \in 1..Len(whole) :
            (HasRaw(whole[i]) /\ Straddles(whole[i])
                /\ ~IsCharacter(whole[i])) =>
                EmittedOnceWhole(whole[i])

\* "<a" | "a>": the first call blocked the two bytes and emitted nothing,
\* the second emitted StartTag(aa)
C6_Witness ==
    /\ doc = <<ChLt, ChLowerA, ChLowerA, ChGt>>
    /\ setup.mode = "Data"
    /\ cuts = {2}
    /\ loop = "done"
    /\ Len(emitted) = 2
    /\ emitted[1].token.type = "StartTag"
    /\ emitted[1].token.name_hash = HashOf(<<ChLowerA, ChLowerA>>)
    /\ emitted[1].start = 0
    /\ emitted[1].end = 4

(***************************************************************************)
(* C7: when the loop breaks with EndOfInput, blocked_byte_count is         *)
(* chunk.len() - raw_start, with raw_start as the turn left it before any  *)
(* rebasing: more than 0 while a token is being built, 0 in a text state.  *)
(* The positions are rebased (raw_start to 0, the cursor to the blocked    *)
(* bytes' end) only when the chunk is not the last.                        *)
(***************************************************************************)
\* raw_start when the turn breaks: where the turn's last raw emission ended,
\* and the unchanged raw_start when it made none
RawStartAtBreak ==
    LET raws == RawEmissions(NewEmissions)
    IN IF raws # <<>> THEN raws[Len(raws)].end - offset ELSE sm.raw_start

\* C7: the blocked byte count and the rebasing at an EndOfInput break.
C7_BlockedByteCount ==
    [][(loop = "running" /\ loop' \in {"eoi", "done"}) =>
        /\ blocked' = Len(chunk) - RawStartAtBreak
        /\ sm'.state \in TextStates => blocked' = 0
        /\ (sm'.state \notin TextStates /\ ~is_last) => blocked' > 0
        /\ IF is_last
           THEN sm'.raw_start = RawStartAtBreak /\ sm'.pos = Len(chunk)
           ELSE sm'.raw_start = 0 /\ sm'.pos = blocked'
    ]_vars

\* a break on a non-last chunk with a token being built that does not begin
\* at the start of the chunk, so that rebasing moved the positions
C7_Witness ==
    /\ loop = "eoi"
    /\ blocked >= 2
    /\ blocked < Len(chunk)
    /\ sm.pos = blocked
    /\ sm.current_token.type = "EndTag"

(***************************************************************************)
(* Resuming from a bookmark.                                               *)
(***************************************************************************)
\* The entry state of each text parsing mode the consumer can select.
EntryStateOfMode(mode) ==
    CASE mode = "Data" -> "data_state"
      [] mode = "RawText" -> "rawtext_state"
      [] mode = "PlainText" -> "plaintext_state"

\* The machine as continue_from_bookmark leaves it, before its first step.
JustResumed == loop = "resumed"

\* C8: when parsing has just been resumed from a bookmark, cdata_allowed,
\* the text parsing mode and last_start_tag_name_hash have the values they
\* had when the bookmark was created, the position is the bookmarked one,
\* and the machine is in the entry state of the bookmarked mode with
\* is_state_enter set, whatever happened in between.
C8_BookmarkRoundTrip ==
    JustResumed =>
        /\ marked # NoMark
        /\ sm.cdata_allowed = marked.cdata_allowed
        /\ sm.last_text_parsing_mode = marked.last_text_parsing_mode
        /\ sm.last_start_tag_name_hash = marked.last_start_tag_name_hash
        /\ sm.pos = marked.pos
        /\ sm.state = EntryStateOfMode(marked.last_text_parsing_mode)
        /\ sm.is_state_enter

\* Parsing was resumed after the run moved on from the bookmarked state and
\* the consumer changed all three settings.
C8_Witness ==
    /\ JustResumed
    /\ marked.state # sm.state
    /\ marked.last_text_parsing_mode = "RawText"
    /\ marked.last_start_tag_name_hash = HashOf(<<ChLowerA>>)
    /\ marked.pos = 1
    /\ Len(emitted) > 0
    /\ \E h \in ConsumerHashes, mode \in ConsumerModes, b \in BOOLEAN :
        /\ h # marked.last_start_tag_name_hash
        /\ mode # marked.last_text_parsing_mode
        /\ b # marked.cdata_allowed
        /\ sm = continue_from_bookmark(
                    Ctx([sm EXCEPT !.last_start_tag_name_hash = h,
                                   !.last_text_parsing_mode = mode,
                                   !.cdata_allowed = b]), bookmark).sm

(***************************************************************************)
(* The fingerprint driven byte by byte (From<&str> folds update over the   *)
(* bytes of the string).                                                   *)
(***************************************************************************)
\* Longest name fed to the fingerprint.
MaxNameLen == 14
\* Leading positions at which every byte of NameBytes is tried.
FreeLen == 2

NameBytes == {ChLowerA, ChLowerK, ChUpperZ, ChDigit1, ChDigit7, ChAt}

Admissible(ch) == IsAsciiAlpha(ch) \/ IsDigit1To6(ch)

HasBadByte(s) == \E i \in 1..Len(s) : ~Admissible(s[i])

\* The bytes tried at the next position: all of NameBytes in the leading
\* positions, then the letter 'a' and (once) an inadmissible byte.
NextBytes(s) ==
    IF Len(s) < FreeLen THEN NameBytes
    ELSE IF HasBadByte(s) THEN {ChLowerA}
    ELSE {ChLowerA, ChAt}

HashInit ==
    /\ name = <<>>
    /\ hash = HashNew
    /\ TokIdle(<<>>, [mode |-> "Data", last |-> NoneHash])
    /\ XIdle

HashUpdate ==
    /\ Len(name) < MaxNameLen
    /\ \E ch \in NextBytes(name) :
        /\ name' = Append(name, ch)
        /\ hash' = update(hash, ch)
    /\ UNCHANGED <<tvars, xvars>>

HashNext == HashUpdate

HashSpec == HashInit /\ [][HashNext]_vars

(***************************************************************************)
(* C9: a name with a byte outside {A-Z, a-z, 1-6}, wherever it occurs, has *)
(* the invalid fingerprint (is_empty), and an invalid fingerprint stays    *)
(* invalid under every later update.                                       *)
(***************************************************************************)
C9_BadByteInvalidates ==
    /\ [](HasBadByte(name) => is_empty(hash))
    /\ [][is_empty(hash) => is_empty(hash')]_hvars

\* A name whose second byte is inadmissible and is followed by at least two
\* admissible bytes.
C9_Witness ==
    /\ Len(name) >= 4
    /\ ~Admissible(name[2])
    /\ \A i \in 3..Len(name) : Admissible(name[i])
    /\ is_empty(hash)

(***************************************************************************)
(* C10: every name longer than 12 bytes over the admissible alphabet has   *)
(* the invalid fingerprint.                                                *)
(***************************************************************************)
C10_LongNameInvalid ==
    (Len(name) > 12 /\ ~HasBadByte(name)) => is_empty(hash)
(***************************************************************************)
(* LocalNameHash rendering and LocalName.                                  *)
(***************************************************************************)
\* h >>= 5
ShiftRight5(h) ==
    [i \in 1..Limbs |-> IF i = Limbs THEN 0 ELSE h[i + 1]]

\* v @ 6.. => v + (b'a' - 6), v => v + b'1'
DebugChar(v) == IF v >= 6 THEN v + (ChLowerA - 6) ELSE v + ChDigit1

\* the loop of fmt::Debug, filling reverse_buf from `pos` downwards; the
\* value is reverse_buf[pos..] at the break
RECURSIVE DebugLoop(_, _)
DebugLoop(h, pos) ==
    LET c == DebugChar(h[1])
        h2 == ShiftRight5(h)
    IN IF h2 = U64Zero \/ pos = 0 THEN <<c>>
       ELSE DebugLoop(h2, pos - 1) \o <<c>>

\* "N/A"
NotAvailable == <<78, 47, 65>>

\* fmt::Debug for LocalNameHash: reverse_buf = [0u8; 12], pos = 11
Debug(h) == IF is_empty(h) THEN NotAvailable ELSE DebugLoop(h, 11)

\* u8::to_ascii_lowercase
ToAsciiLower(ch) ==
    IF ChUpperA <= ch /\ ch <= ChUpperZ THEN ch + (ChLowerA - ChUpperA) ELSE ch

\* [u8]::eq_ignore_ascii_case
eq_ignore_ascii_case(s, o) ==
    /\ Len(s) = Len(o)
    /\ \A i \in 1..Len(s) : ToAsciiLower(s[i]) = ToAsciiLower(o[i])

\* LocalName::new that trusts the hash it is given
LocalName_new_AlwaysHash(input, range, h) == [variant |-> "Hash", hash |-> h]

\* LocalName::new(input, range, hash)
LocalName_new(input, range, h) ==
    IF is_empty(h)
    THEN [variant |-> "Bytes",
          bytes |-> SubSeq(input, range.start + 1, range.end)]
    ELSE [variant |-> "Hash", hash |-> h]

\* PartialEq<Tag> for LocalNameHash: self.0 == *tag as u64
LocalNameHash_eq_Tag(h, tag) == h = tag

\* PartialEq<Tag> for LocalName
LocalName_eq_Tag(n, tag) ==
    IF n.variant = "Hash" THEN LocalNameHash_eq_Tag(n.hash, tag) ELSE FALSE

\* PartialEq<LocalName> that compares the bytes exactly
LocalName_eq_Exact(n, o) ==
    CASE n.variant = "Hash" /\ o.variant = "Hash" -> n.hash = o.hash
      [] n.variant = "Bytes" /\ o.variant = "Bytes" -> n.bytes = o.bytes
      [] OTHER -> FALSE

\* PartialEq<LocalName> for LocalName
LocalName_eq(n, o) ==
    CASE n.variant = "Hash" /\ o.variant = "Hash" -> n.hash = o.hash
      [] n.variant = "Bytes" /\ o.variant = "Bytes" ->
            eq_ignore_ascii_case(n.bytes, o.bytes)
      [] OTHER -> FALSE

(***************************************************************************)
(* Two names fed byte by byte to two fingerprints, and what the consumer   *)
(* makes of them: their rendering, their LocalNames and the comparisons.   *)
(***************************************************************************)
\* Longest name of the enumerated family.
MaxPairLen == 13
\* Leading positions at which every byte of PairBytes is tried.
PairFreeLen == 1

PairBytes == {ChLowerA, ChUpperA, ChLowerK, ChUpperK, ChDigit1, ChAt}

\* "div", "h1", "H1" and "verylongtagnameindeed"
SampleNames ==
    {<<100, 105, 118>>,
     <<104, ChDigit1>>,
     <<72, ChDigit1>>,
     <<118, 101, 114, 121, 108, 111, 110, 103, 116, 97, 103, 110, 97, 109,
       101, 105, 110, 100, 101, 101, 100>>}

IsPrefix(s, w) == Len(s) <= Len(w) /\ SubSeq(w, 1, Len(s)) = s

\* The names tried: bytes of PairBytes in the leading positions followed by
\* repetitions of `pad`, and the sample names.
Tried(s, pad) ==
    \/ /\ Len(s) <= MaxPairLen
       /\ \A i \in 1..Len(s) :
            IF i <= PairFreeLen THEN s[i] \in PairBytes ELSE s[i] = pad
    \/ \E w \in SampleNames : IsPrefix(s, w)

TriedBytes(pad) ==
    PairBytes \cup {pad} \cup
        UNION {{w[i] : i \in 1..Len(w)} : w \in SampleNames}

\* enum Tag: the discriminant of a tag is the fingerprint of its name
Tags == {LocalNameHash_from(<<100, 105, 118>>),
         LocalNameHash_from(<<ChLowerA>>),
         LocalNameHash_from(<<104, ChDigit1>>)}

\* the chunk "<name>" and the range of the name in it
TagInput(s) == <<ChLt>> \o s \o <<ChGt>>

NameRange(s) == [start |-> 1, end |-> 1 + Len(s)]

NameInit ==
    /\ name = <<>>
    /\ hash = HashNew
    /\ TokIdle(<<>>, [mode |-> "Data", last |-> NoneHash])
    /\ XIdle

\* hash.update(ch) on the first name
NameUpdate ==
    /\ \E ch \in TriedBytes(ChLowerA) :
        /\ Tried(Append(name, ch), ChLowerA)
        /\ name' = Append(name, ch)
        /\ hash' = update(hash, ch)
    /\ view' = NoView
    /\ UNCHANGED <<tvars, name2, hash2, comment>>

\* hash.update(ch) on the second name
NameUpdate2 ==
    /\ \E ch \in TriedBytes(ChUpperA) :
        /\ Tried(Append(name2, ch), ChUpperA)
        /\ name2' = Append(name2, ch)
        /\ hash2' = update(hash2, ch)
    /\ view' = NoView
    /\ UNCHANGED <<tvars, name, hash, comment>>

\* the consumer renders the first fingerprint, builds the two LocalNames
\* and compares them with each other and with the tags
Inspect ==
    /\ view = NoView
    /\ LET n == LocalName_new(TagInput(name), NameRange(name), hash)
           o == LocalName_new(TagInput(name2), NameRange(name2), hash2)
       IN view' = [debug |-> Debug(hash),
                   from |-> LocalNameHash_from(name),
                   n |-> n,
                   o |-> o,
                   eq |-> LocalName_eq(n, o),
                   eq_rev |-> LocalName_eq(o, n),
                   tags |-> {t \in Tags : LocalName_eq_Tag(n, t)}]
    /\ UNCHANGED <<tvars, name, hash, name2, hash2, comment>>

NameNext == NameUpdate \/ NameUpdate2 \/ Inspect

NameSpec == NameInit /\ [][NameNext]_vars
(***************************************************************************)
(* Reading the two names.                                                  *)
(***************************************************************************)
\* a name as the tag states scan it: it begins with an ASCII letter
StartsWithLetter(s) == s # <<>> /\ IsAsciiAlpha(s[1])

SameNameIgnoringCase(s, o) ==
    /\ Len(s) = Len(o)
    /\ \A i \in 1..Len(s) :
        (IF s[i] >= ChLowerA /\ s[i] <= ChLowerZ
         THEN s[i] - ChLowerA + ChUpperA ELSE s[i])
        = (IF o[i] >= ChLowerA /\ o[i] <= ChLowerZ
           THEN o[i] - ChLowerA + ChUpperA ELSE o[i])

(***************************************************************************)
(* C11: the valid fingerprints of two names (names as the tag states scan  *)
(* them, beginning with a letter) are equal if and only if the names are   *)
(* equal ASCII-case-insensitively, are made of the admissible alphabet and *)
(* are at most 12 bytes long.                                              *)
(***************************************************************************)
C11_EqualIffSameName ==
    (/\ StartsWithLetter(name) /\ StartsWithLetter(name2)
     /\ ~is_empty(hash) /\ ~is_empty(hash2))
    => (hash = hash2 <=>
            /\ SameNameIgnoringCase(name, name2)
            /\ ~HasBadByte(name) /\ ~HasBadByte(name2)
            /\ Len(name) <= 12 /\ Len(name2) <= 12)
(***************************************************************************)
(* C12: the fingerprint of an admissible name equals the fingerprint of    *)
(* its uppercase form; so the names "h1" of <h1> and "H1" of </H1> have    *)
(* equal fingerprints.                                                     *)
(***************************************************************************)
Uppercase(s) ==
    [i \in 1..Len(s) |->
        IF s[i] >= ChLowerA /\ s[i] <= ChLowerZ
        THEN s[i] - ChLowerA + ChUpperA ELSE s[i]]

C12_CaseInsensitive ==
    (~HasBadByte(name) /\ name2 = Uppercase(name)) => hash = hash2

\* "h1" and "H1" with one valid fingerprint
C12_Witness ==
    /\ name = <<104, ChDigit1>>
    /\ name2 = <<72, ChDigit1>>
    /\ name2 = Uppercase(name)
    /\ hash = hash2
    /\ ~is_empty(hash)
(***************************************************************************)
(* C13: a valid fingerprint is the 5-bit packing of the name, the last     *)
(* byte in the lowest five bits, with code (c & 0x1F) + 5 for a letter and *)
(* (c & 0x0F) - 1 for a digit 1..6; the fingerprint of "div" is 9691; and  *)
(* the fingerprint built update by update is the one from(str) returns.    *)
(***************************************************************************)
PackingCode(c) == IF IsAsciiAlpha(c) THEN (c % 32) + 5 ELSE (c % 16) - 1

\* the value of a u64 below 2^15
SmallValue(h) == h[1] + 32 * h[2] + 1024 * h[3]

IsSmall(h) == \A i \in 4..Limbs : h[i] = 0

C13_Packing ==
    /\ hash = LocalNameHash_from(name)
    /\ ~is_empty(hash) =>
        \A i \in 1..Limbs :
            hash[i] = (IF i <= Len(name)
                       THEN PackingCode(name[Len(name) + 1 - i]) ELSE 0)
    /\ name = <<100, 105, 118>> => (IsSmall(hash) /\ SmallValue(hash) = 9691)
    /\ view # NoView => view.from = hash

\* "div" with the fingerprint 9691, also obtained by from(str)
C13_Witness ==
    /\ name = <<100, 105, 118>>
    /\ IsSmall(hash)
    /\ SmallValue(hash) = 9691
    /\ view # NoView
    /\ view.from = hash
(***************************************************************************)
(* C14: the Debug rendering of the valid fingerprint of a name (a name as  *)
(* the tag states scan it, beginning with a letter) is the lowercase form  *)
(* of the name.                                                            *)
(***************************************************************************)
Lowercase(s) ==
    [i \in 1..Len(s) |->
        IF s[i] >= ChUpperA /\ s[i] <= ChUpperZ
        THEN s[i] - ChUpperA + ChLowerA ELSE s[i]]

C14_DebugRoundTrip ==
    (view # NoView /\ StartsWithLetter(name) /\ ~is_empty(hash))
        => view.debug = Lowercase(name)
(***************************************************************************)
(* C15: LocalName::new gives the Hash variant, holding the fingerprint it  *)
(* was given, exactly when that fingerprint is valid, and otherwise the    *)
(* Bytes variant holding the bytes of the given range; a Hash variant      *)
(* never holds the invalid fingerprint; a Bytes name, such as              *)
(* "verylongtagnameindeed", is equal to no tag.                            *)
(***************************************************************************)
VeryLongTagName ==
    <<118, 101, 114, 121, 108, 111, 110, 103, 116, 97, 103, 110, 97, 109,
      101, 105, 110, 100, 101, 101, 100>>

NewAsSpecified(n, s, h) ==
    /\ n.variant = "Hash" <=> ~is_empty(h)
    /\ n.variant = "Hash" => (n.hash = h /\ ~is_empty(n.hash))
    /\ n.variant # "Hash" => (n.variant = "Bytes" /\ n.bytes = s)

C15_HashIffValid ==
    view # NoView =>
        /\ NewAsSpecified(view.n, name, hash)
        /\ NewAsSpecified(view.o, name2, hash2)
        /\ view.n.variant = "Bytes" => view.tags = {}
        /\ view.n.variant = "Hash" => view.tags = {t \in Tags : t = hash}
        /\ name = VeryLongTagName =>
                (view.n.variant = "Bytes" /\ view.tags = {})

\* "verylongtagnameindeed" as Bytes, next to a second name that is the tag a
C15_Witness ==
    /\ view # NoView
    /\ name = VeryLongTagName
    /\ view.n = [variant |-> "Bytes", bytes |-> VeryLongTagName]
    /\ view.tags = {}
    /\ name2 = <<ChUpperA>>
    /\ view.o.variant = "Hash"
    /\ view.o.hash \in Tags
(***************************************************************************)
(* C16 as stated: two Hash names are equal iff their integers are, two     *)
(* Bytes names iff their bytes are equal ignoring ASCII case, a Hash name  *)
(* never equals a Bytes name, equality is symmetric, and two names built   *)
(* by LocalName::new are equal exactly when the names they were built from *)
(* are equal ignoring ASCII case.                                          *)
(***************************************************************************)
EqByVariant ==
    /\ (view.n.variant = "Hash" /\ view.o.variant = "Hash")
            => (view.eq <=> view.n.hash = view.o.hash)
    /\ (view.n.variant = "Bytes" /\ view.o.variant = "Bytes")
            => (view.eq <=> SameNameIgnoringCase(view.n.bytes, view.o.bytes))
    /\ view.n.variant # view.o.variant => ~view.eq
    /\ view.eq = view.eq_rev

ChHyphen == 45
\* U+0416, a char that UTF-8 encodes in two bytes and windows-1252 cannot
\* represent
ChZhe == 1046

Encodings == {"UTF_8", "WINDOWS_1252"}

\* the bytes of one char in an encoding, <<>> standing for "no
\* representation"
EncodeChar(ch, encoding) ==
    IF ch < 128 THEN <<ch>>
    ELSE IF encoding = "UTF_8" /\ ch < 2048
         THEN <<192 + (ch \div 64), 128 + (ch % 64)>>
         ELSE <<>>

\* Bytes::from_str_without_replacements(text, encoding): None if a char
\* would be replaced by a numeric character reference
from_str_without_replacements(text, encoding) ==
    IF \E i \in 1..Len(text) : EncodeChar(text[i], encoding) = <<>>
    THEN [some |-> FALSE]
    ELSE [some |-> TRUE,
          bytes |-> LET F[i \in 0..Len(text)] ==
                            IF i = 0 THEN <<>>
                            ELSE F[i - 1] \o EncodeChar(text[i], encoding)
                    IN F[Len(text)]]

\* "-->"
ClosingSequence == <<ChHyphen, ChHyphen, ChGt>>

\* text.find("-->").is_some()
FindsClosingSequence(text) ==
    \E i \in 1..Len(text) - 2 : SubSeq(text, i, i + 2) = ClosingSequence

\* Comment::new_token
new_token(text, raw, encoding) ==
    [text |-> text, raw |-> <<raw>>, encoding |-> encoding]

\* set_text that encodes before it looks for the closing sequence
set_text_EncodeFirst(cm, text) ==
    LET b == from_str_without_replacements(text, cm.encoding)
    IN IF ~b.some
       THEN [comment |-> cm, result |-> "UnencodableCharacter"]
       ELSE IF FindsClosingSequence(text)
            THEN [comment |-> cm, result |-> "CommentClosingSequence"]
            ELSE [comment |-> [cm EXCEPT !.text = b.bytes, !.raw = <<>>],
                  result |-> "Ok"]

\* Comment::set_text
set_text(cm, text) ==
    IF FindsClosingSequence(text)
    THEN [comment |-> cm, result |-> "CommentClosingSequence"]
    ELSE LET b == from_str_without_replacements(text, cm.encoding)
         IN IF b.some
            THEN [comment |-> [cm EXCEPT !.text = b.bytes, !.raw = <<>>],
                  result |-> "Ok"]
            ELSE [comment |-> cm, result |-> "UnencodableCharacter"]

\* Comment::serialize_from_parts
serialize_from_parts(cm) ==
    <<60, 33, ChHyphen, ChHyphen>> \o cm.text \o ClosingSequence

\* to_bytes of the common token API: the raw bytes while the token is
\* untouched, else the parts
to_bytes(cm) == IF cm.raw # <<>> THEN cm.raw[1] ELSE serialize_from_parts(cm)

\* Longest text of the enumerated family.
MaxTextLen == 3

TextChars == {ChHyphen, ChGt, ChZhe}

\* "-->" followed by the unencodable char, and the reverse
SampleTexts ==
    {ClosingSequence \o <<ChZhe>>, <<ChZhe>> \o ClosingSequence}

Texts == UNION {[1..n -> TextChars] : n \in 0..MaxTextLen} \cup SampleTexts

CommentInit ==
    /\ name = <<>>
    /\ hash = HashNew
    /\ TokIdle(<<>>, [mode |-> "Data", last |-> NoneHash])
    /\ XIdle

\* the tokenizer's comment "<!--a-->" reaches the consumer
NewComment ==
    /\ comment = NoComment
    /\ \E encoding \in Encodings :
        comment' = new_token(<<ChLowerA>>,
                             serialize_from_parts([text |-> <<ChLowerA>>]),
                             encoding)
    /\ UNCHANGED <<tvars, name, hash, name2, hash2, view>>

\* the consumer calls set_text and serializes the comment
SetText ==
    /\ comment # NoComment
    /\ \E text \in Texts :
        LET r == set_text(comment, text)
        IN /\ comment' = r.comment
           /\ view' = [arg |-> text, result |-> r.result,
                       bytes |-> to_bytes(r.comment)]
    /\ UNCHANGED <<tvars, name, hash, name2, hash2>>

CommentNext == NewComment \/ SetText

CommentSpec == CommentInit /\ [][CommentNext]_vars

(***************************************************************************)
(* C17: set_text returns CommentClosingSequence if the text contains "-->" *)
(* (whether or not it can be encoded), UnencodableCharacter if it does not *)
(* but cannot be encoded without replacement, and in both cases leaves the *)
(* comment's text and raw bytes as they were; otherwise it replaces the    *)
(* text and clears raw, and the comment serializes as "<!--", the new      *)
(* text, "-->".                                                            *)
(***************************************************************************)
HasClosingSequence(text) ==
    \E i, j \in 1..Len(text) :
        /\ j = i + 2
        /\ text[i] = ChHyphen /\ text[i + 1] = ChHyphen /\ text[j] = ChGt

CanEncode(text, encoding) ==
    \A i \in 1..Len(text) : text[i] < 128 \/ encoding = "UTF_8"

C17_SetTextAllOrNothing ==
    [][(comment # NoComment /\ view' # NoView) =>
        LET text == view'.arg
            ok == ~HasClosingSequence(text) /\ CanEncode(text, comment.encoding)
        IN /\ HasClosingSequence(text) =>
                view'.result = "CommentClosingSequence"
           /\ (~HasClosingSequence(text) /\ ~CanEncode(text, comment.encoding))
                => view'.result = "UnencodableCharacter"
           /\ ~ok => (comment' = comment /\ view'.bytes = to_bytes(comment))
           /\ ok =>
                /\ view'.result = "Ok"
                /\ comment'.raw = <<>>
                /\ comment'.encoding = comment.encoding
                /\ from_str_without_replacements(text, comment.encoding).bytes
                        = comment'.text
                /\ view'.bytes =
                        <<60, 33, ChHyphen, ChHyphen>> \o comment'.text
                            \o <<ChHyphen, ChHyphen, ChGt>>
    ]_vars

\* a text with "-->" and an unencodable char was refused for the closing
\* sequence, after an earlier set_text had replaced the text
C17_Witness ==
    /\ comment # NoComment
    /\ comment.encoding = "WINDOWS_1252"
    /\ view # NoView
    /\ view.arg = <<ChZhe>> \o ClosingSequence
    /\ view.result = "CommentClosingSequence"
    /\ comment.raw = <<>>
    /\ comment.text = <<ChHyphen, ChGt>>
    /\ view.bytes = <<60, 33, ChHyphen, ChHyphen, ChHyphen, ChGt,
                      ChHyphen, ChHyphen, ChGt>>
(***************************************************************************)
(* C18: at the emission of every StartTag the attribute buffer holds       *)
(* exactly the attributes written in that tag, in source order, duplicate  *)
(* names kept, and nothing of an end tag or an earlier tag.                *)
(***************************************************************************)
\* a byte of a tag name or an attribute name (no "=" or quote in DocBytes)
IsNameByte(b) == ~IsWhitespace(b) /\ b # ChSolidus /\ b # ChGt

\* the attributes written in the raw bytes of a start tag, as ranges
\* relative to the tag's first byte: every maximal run of name bytes after
\* the tag name
WrittenAttributes(raw) ==
    LET RunEnd(s) ==
            CHOOSE e \in s + 1..Len(raw) :
                /\ ~IsNameByte(raw[e])
                /\ \A k \in s..e - 1 : IsNameByte(raw[k])
        F[i \in 2..Len(raw)] ==
            IF i = 2 THEN <<>>
            ELSE IF IsNameByte(raw[i]) /\ ~IsNameByte(raw[i - 1])
                 THEN Append(F[i - 1],
                             [name |-> <<i - 1, RunEnd(i) - 1>>,
                              value |-> <<0, 0>>])
                 ELSE F[i - 1]
    IN F[Len(raw)]

C18_AttributeBufferIsTheTags ==
    \A i \in 1..Len(emitted) :
        emitted[i].token.type = "StartTag" =>
            emitted[i].attributes =
                WrittenAttributes(SubSeq(doc, emitted[i].start + 1,
                                         emitted[i].end))

\* "<a a a>" was emitted with two attributes of the same name, after a start
\* tag with one attribute and an end tag written with one
C18_Witness ==
    /\ doc = AttributesDoc
    /\ Len(emitted) = 3
    /\ emitted[1].token.type = "StartTag"
    /\ Len(emitted[1].attributes) = 1
    /\ emitted[2].token.type = "EndTag"
    /\ emitted[2].end - emitted[2].start = 6
    /\ emitted[3].token.type = "StartTag"
    /\ emitted[3].attributes =
            <<[name |-> <<3, 4>>, value |-> <<0, 0>>],
              [name |-> <<5, 6>>, value |-> <<0, 0>>]>>
(***************************************************************************)
(* C19: in rawtext_less_than_sign_state a byte other than '/', and in      *)
(* rawtext_end_tag_open_state a byte other than an ASCII letter, creates   *)
(* no token: the pending "<" or "</" is emitted as characters and the byte *)
(* stays under the cursor for rawtext_state.  At the end of the last chunk *)
(* the pending bytes are emitted as characters, then Eof.                  *)
(***************************************************************************)
EofRecord ==
    [token |-> [type |-> "Eof"], attributes |-> <<>>,
     start |-> -1, end |-> -1, bytes |-> <<>>]

C19_NoTokenFromBrokenEndTagStart ==
    [][(loop = "running"
        /\ sm.state \in {"rawtext_less_than_sign_state",
                         "rawtext_end_tag_open_state"}) =>
        LET ch == CurrentByte
            pending == IF sm.state = "rawtext_less_than_sign_state"
                       THEN <<ChLt>> ELSE <<ChLt, ChSolidus>>
            offending ==
                /\ ch # NoCh
                /\ IF sm.state = "rawtext_less_than_sign_state"
                   THEN ch # ChSolidus ELSE ~IsAsciiAlpha(ch)
        IN /\ offending =>
                /\ sm'.current_token = sm.current_token
                /\ NewEmissions = PendingCharacters
                /\ Len(NewEmissions) = 1
                /\ NewEmissions[1].bytes = pending
                /\ sm'.state = "rawtext_state"
                /\ sm'.pos = sm.pos
                /\ sm'.raw_start = sm.pos
           /\ (ch = NoCh /\ is_last) =>
                /\ sm'.current_token = sm.current_token
                /\ NewEmissions = PendingCharacters \o <<EofRecord>>
                /\ Len(NewEmissions) = 2
                /\ NewEmissions[1].bytes = pending
                /\ loop' = "done"
    ]_vars

\* in "<</>" the second '<' was examined after the first was given up: "<"
\* and then "</" were emitted as characters, and '>' is left to rawtext_state
C19_Witness ==
    /\ doc = <<ChLt, ChLt, ChSolidus, ChGt>>
    /\ setup.mode = "RawText"
    /\ loop = "running"
    /\ sm.state = "rawtext_state"
    /\ sm.current_token = NoToken
    /\ Len(emitted) = 2
    /\ emitted[1].token.type = "Character"
    /\ emitted[1].bytes = <<ChLt>>
    /\ emitted[2].token.type = "Character"
    /\ emitted[2].bytes = <<ChLt, ChSolidus>>
    /\ emitted[2].start = 1
    /\ offset + sm.pos = 3
(***************************************************************************)
(* C20: a turn of a raw-text state that emits an EndTag (an appropriate    *)
(* end tag closed by '>') leaves the machine in data_state with            *)
(* is_state_enter set, whatever text parsing mode and start tag name the   *)
(* consumer had set; from there each turn follows the Data rules: the mode *)
(* in force becomes Data, '<' opens a tag and any other byte is text.      *)
(***************************************************************************)
EmitsEndTag ==
    \E i \in 1..Len(NewEmissions) : NewEmissions[i].token.type = "EndTag"

C20_DataAfterRawTextEndTag ==
    [][/\ (loop = "running" /\ sm.state \in RawTextGroup /\ EmitsEndTag) =>
            /\ CurrentByte = ChGt
            /\ sm.last_text_parsing_mode = "RawText"
            /\ sm'.state = "data_state"
            /\ sm'.is_state_enter
            /\ sm'.pos = sm.pos + 1
            /\ sm'.raw_start = sm'.pos
            /\ loop' = "running"
       /\ (loop = "running" /\ sm.state = "data_state") =>
            /\ sm.is_state_enter => sm'.last_text_parsing_mode = "Data"
            /\ ~sm.is_state_enter =>
                    sm'.last_text_parsing_mode = sm.last_text_parsing_mode
            /\ sm'.state = (IF CurrentByte = ChLt THEN "tag_open_state"
                            ELSE "data_state")
            /\ (CurrentByte # ChLt /\ CurrentByte # NoCh) =>
                    (NewEmissions = <<>> /\ sm'.pos = sm.pos + 1)
    ]_vars

\* "</a><a>" read in RawText mode after a start tag "a": the end tag was
\* emitted from rawtext_end_tag_name_state and "<a>" came out as a StartTag
C20_Witness ==
    /\ doc = EndThenStartDoc
    /\ setup.mode = "RawText"
    /\ sm.last_text_parsing_mode = "Data"
    /\ sm.state = "data_state"
    /\ Len(emitted) = 2
    /\ emitted[1].token.type = "EndTag"
    /\ emitted[1].bytes = <<ChLt, ChSolidus, ChLowerA, ChGt>>
    /\ emitted[2].token.type = "StartTag"
    /\ emitted[2].bytes = <<ChLt, ChLowerA, ChGt>>
(***************************************************************************)
(* finish_tag_name applied to a machine that is scanning a tag name: the   *)
(* tag begins at raw_start, its name at token_part_start, and the cursor   *)
(* is on the byte that ends the name.                                      *)
(***************************************************************************)
\* Largest cursor position of the enumerated machines.
MaxPos == 5

\* the fingerprint of the name scanned so far: "a", "b", or invalid
ScannedHashes == {HashOf(<<ChLowerA>>), HashOf(<<ChLowerB>>), NoneHash}

\* the tag under construction, as create_start_tag or create_end_tag and
\* update_tag_name_hash leave it
ScannedTags ==
    {[type |-> "StartTag", name |-> <<0, 0>>, name_hash |-> h,
      self_closing |-> FALSE] : h \in ScannedHashes}
    \cup {[type |-> "EndTag", name |-> <<0, 0>>, name_hash |-> h] :
            h \in ScannedHashes}

\* the state in which the machine scans the name of such a tag
ScanningState(token, mode) ==
    IF token.type = "EndTag" /\ mode = "RawText"
    THEN "rawtext_end_tag_name_state" ELSE "tag_name_state"

ScanningMachines ==
    {[Configure(NewMachine, [mode |-> m, last |-> l])
        EXCEPT !.state = ScanningState(t, m),
               !.is_state_enter = FALSE,
               !.current_token = t,
               !.raw_start = r,
               !.token_part_start = IF t.type = "StartTag" THEN 1 ELSE 2,
               !.pos = q] :
        t \in ScannedTags, l \in ConsumerHashes, m \in {"Data", "RawText"},
        r \in 0..MaxPos, q \in 0..MaxPos}

TagNameInit ==
    /\ name = <<>>
    /\ hash = HashNew
    /\ XIdle
    /\ TokIdle(<<>>, [mode |-> "Data", last |-> NoneHash])

\* the machine is found scanning a tag name
ScanTagName ==
    /\ sm.current_token = NoToken
    /\ \E m \in ScanningMachines :
        \* a one-byte name has a valid fingerprint, an invalid one is longer
        /\ IF m.current_token.name_hash # NoneHash
           THEN m.pos = m.raw_start + m.token_part_start + 1
           ELSE m.pos > m.raw_start + m.token_part_start + 1
        \* a start tag is only scanned in Data mode
        /\ m.current_token.type = "StartTag" => m.last_text_parsing_mode = "Data"
        /\ sm' = m
    /\ UNCHANGED <<xvars, name, hash, doc, setup, offset, chunk, is_last,
                   nchunks, cuts, emitted, loop, blocked, bookmark, marked,
                   resumes>>

\* the byte under the cursor ends the name
FinishTagName ==
    /\ sm.current_token # NoToken
    /\ sm' = finish_tag_name(Ctx(sm)).sm
    /\ UNCHANGED <<xvars, name, hash, doc, setup, offset, chunk, is_last,
                   nchunks, cuts, emitted, loop, blocked, bookmark, marked,
                   resumes>>

TagNameNext == ScanTagName \/ FinishTagName

TagNameSpec == TagNameInit /\ [][TagNameNext]_vars
(***************************************************************************)
(* C21: finish_tag_name sets the name range of the current tag; for a      *)
(* start tag it also assigns the tag's fingerprint, valid or not, to       *)
(* last_start_tag_name_hash; for an end tag it leaves                      *)
(* last_start_tag_name_hash as it was.                                     *)
(***************************************************************************)
C21_FinishTagName ==
    [][sm.current_token # NoToken =>
        /\ sm'.current_token.name =
                <<sm.token_part_start, sm.pos - sm.raw_start>>
        /\ sm.current_token.type = "StartTag" =>
                sm'.last_start_tag_name_hash = sm.current_token.name_hash
        /\ sm.current_token.type = "EndTag" =>
                sm'.last_start_tag_name_hash = sm.last_start_tag_name_hash
    ]_vars
(***************************************************************************)
(* C22: current_token is Some while a token is being built and None        *)
(* between tokens.                                                         *)
(***************************************************************************)
\* the states in which a tag or a comment is under construction
BuildingStates ==
    {"rawtext_end_tag_name_state", "tag_name_state",
     "before_attribute_name_state", "attribute_name_state",
     "after_attribute_name_state", "self_closing_start_tag_state",
     "bogus_comment_state"}

\* C22 as stated: emit_current_token never finds current_token absent, a
\* token is present in every building state, and in every text state
\* current_token is None
C22_NoneBetweenTokens ==
    /\ loop # "panic"
    /\ sm.state \in BuildingStates => sm.current_token # NoToken
    /\ sm.state \in TextStates => sm.current_token = NoToken

\* C22, amended: emit_current_token never finds current_token absent and
\* leaves it None, a token is present in every building state, and in a text
\* state current_token is None unless the machine is in raw text and holds
\* the EndTag of an end-tag candidate it gave up
C22_NoneAfterEmission ==
    /\ loop # "panic"
    /\ sm.state \in BuildingStates => sm.current_token # NoToken
    /\ sm.state \in {"data_state", "plaintext_state"} =>
            sm.current_token = NoToken
    /\ sm.state \in RawTextGroup \ BuildingStates =>
            \/ sm.current_token = NoToken
            \/ /\ sm.current_token.type = "EndTag"
               /\ sm.last_text_parsing_mode = "RawText"
               /\ \A i \in 1..Len(emitted) : ~IsTag(emitted[i].token)

\* "</a>" in RawText mode after a start tag "b": the candidate was given up
\* at '>', "</a" went out as characters, and the machine is in
\* rawtext_state with the EndTag still in current_token
C22_Witness ==
    /\ doc = <<ChLt, ChSolidus, ChLowerA, ChGt>>
    /\ setup = [mode |-> "RawText", last |-> HashOf(<<ChLowerB>>)]
    /\ sm.state = "rawtext_state"
    /\ sm.current_token # NoToken
    /\ sm.current_token.type = "EndTag"
    /\ sm.current_token.name_hash = HashOf(<<ChLowerA>>)
    /\ Len(emitted) = 1
    /\ emitted[1].token.type = "Character"
    /\ emitted[1].bytes = <<ChLt, ChSolidus, ChLowerA>>
(***************************************************************************)
(* C23: between any two turns of the loop, whatever chunks were fed,       *)
(* wherever the loop suspended and from whatever bookmark it resumed,      *)
(* raw_start <= pos; token_part_start is never negative, and every emitted *)
(* raw range has start <= end.                                             *)
(***************************************************************************)
C23_RawStartNotAfterCursor ==
    /\ sm.raw_start >= 0
    /\ sm.raw_start <= sm.pos
    /\ sm.token_part_start >= 0
    /\ \A i \in 1..Len(emitted) :
            HasRaw(emitted[i]) => emitted[i].start <= emitted[i].end

\* after a suspension, the end of the input and a resumption from a bookmark
\* further on in the chunk, start_token_part has run and a raw range was
\* emitted again
C23_Witness ==
    /\ nchunks = 2
    /\ resumes = 1
    /\ bookmark.pos > 0
    /\ sm.raw_start > bookmark.pos
    /\ sm.token_part_start > 0
    /\ \E i, j \in 1..Len(emitted) :
            /\ i < j
            /\ emitted[i].token.type = "Eof"
            /\ HasRaw(emitted[j])
            /\ emitted[j].start < emitted[j].end
(***************************************************************************)
(* C24: run_parsing_loop returns on every chunk.  A turn of the loop moves *)
(* the cursor by one byte or by none; a turn that moves it by none is a    *)
(* reconsume out of a state that no reconsume leads into, so the next turn *)
(* consumes a byte or breaks; and the loop returns exactly on a Break at   *)
(* the end of the input.                                                   *)
(***************************************************************************)
\* the states with a `reconsume in` arm
ReconsumingStates ==
    {"rawtext_less_than_sign_state", "rawtext_end_tag_open_state",
     "rawtext_end_tag_name_state", "tag_open_state",
     "self_closing_start_tag_state"}

C24_LoopTerminates ==
    /\ [][loop = "running" =>
            IF loop' = "running"
            THEN /\ CurrentByte # NoCh
                 /\ sm'.pos \in {sm.pos, sm.pos + 1}
                 /\ sm'.pos = sm.pos =>
                        /\ sm.state \in ReconsumingStates
                        /\ sm'.state \notin ReconsumingStates
                        /\ sm'.is_state_enter
            ELSE /\ CurrentByte = NoCh
                 /\ loop' \in {"eoi", "done"}
       ]_vars
    /\ (loop = "running") ~> (loop \in {"eoi", "done"})

\* "<<a" in RawText mode: two reconsumes on the way, and the loop returned
\* at the end of the input
C24_Witness ==
    /\ doc = <<ChLt, ChLt, ChLowerA>>
    /\ setup.mode = "RawText"
    /\ nchunks = 1
    /\ loop = "done"
    /\ sm.pos = Len(doc)
    /\ Len(emitted) = 4
    /\ emitted[1].bytes = <<ChLt>>
    /\ emitted[2].bytes = <<ChLt>>
    /\ emitted[3].bytes = <<ChLowerA>>
    /\ emitted[4].token.type = "Eof"

====
